---- MODULE Spec2Model ----
(***************************************************************************)
(* Model of the OneginSort line table (src/Text.h): UTF-16 code units,     *)
(* IntegratedString views into a shared buffer, the directional            *)
(* comparator, and the Text object with its order snapshots.               *)
(*                                                                         *)
(* Code units are integers 0..65535.  A buffer is a sequence of code       *)
(* units; the heap is a sequence of buffers.  An IntegratedString is the   *)
(* record [buf, ptr, size]: ptr_ is the offset ptr inside buffer buf of    *)
(* the heap and size_ is size.                                             *)
(***************************************************************************)
EXTENDS Integers, Sequences, FiniteSets, TLC

VARIABLES
    heap,       \* the buffers alive: heap[1] is Text::buffer_ (or the first literal)
    ndebug,     \* build configuration: TRUE when compiled with NDEBUG (assert disabled)
    status,     \* "Unloaded", "Loaded", "Aborted" (assert fired), "Undefined"
    nSymbols_,  \* Text::nSymbols_
    nLines_,    \* Text::nLines_
    strings_,   \* Text::strings_[0 .. nLines_), the current order
    original_,  \* Text::original_[0 .. nLines_), the order kept from load
    saved,      \* the caller's LineOrder variable (result of a getOrder())
    snapAt,     \* history: the current order at the moment `saved` was taken
    lastOp,     \* history: the last call on the Text object, whether it changed
                \* the current order and, for a load, the undefined behaviour met
    output,     \* the code units written to the output FILE
    atLoad,     \* history: the order at the end of the last load
    source,     \* history: the code units handed to the last load
    events,     \* history: what setOrder calls have broken so far
    cmp         \* the comparator harness: two strings and the results of the calls

vars == <<heap, ndebug, status, nSymbols_, nLines_, strings_, original_,
          saved, snapAt, lastOp, output, atLoad, source,
          events, cmp>>

tableVars == <<ndebug, status, nSymbols_, nLines_, strings_, original_,
               saved, snapAt, lastOp, output, atLoad, source,
               events>>

(***************************************************************************)
(* Code units and bounds                                                   *)
(***************************************************************************)
NUL == 0
NEWLINE == 10
\* char16_t(0xfeff000a)
UTF16_NEWLINE == 10
N_PROHIBITED_ == 11
\* u".,!:;\"?-() "
PROHIBITED_ == <<46, 44, 33, 58, 59, 34, 63, 45, 40, 41, 32>>

\* size_t arithmetic wraps; the width is modelled as 16 bits
SizeMod == 65536

\* The host is little-endian: htobe16 swaps the two bytes of its argument.
HostLittleEndian == TRUE

\* Longest string handed to the comparator harness.
MaxLen == 3

\* Code units of the comparator harness: '.', ' ', 'a' and U+0411.
CmpAlphabet == {46, 32, 97, 1041}

RECURSIVE SeqsUpTo(_, _)
SeqsUpTo(S, n) ==
    IF n = 0 THEN {<<>>}
    ELSE LET shorter == SeqsUpTo(S, n - 1)
         IN  shorter \cup {Append(s, c) : s \in {t \in shorter : Len(t) = n - 1}, c \in S}

CmpStrings == SeqsUpTo(CmpAlphabet, MaxLen)

(***************************************************************************)
(* Free functions                                                          *)
(***************************************************************************)
htobe16(c) ==
    IF HostLittleEndian THEN (c % 256) * 256 + (c \div 256) ELSE c

utf16_comp_le(c1, c2) ==
    LET b1 == htobe16(c1)
        b2 == htobe16(c2)
    IN  IF b1 < b2 THEN -1
        ELSE IF b1 = b2 THEN 0
        ELSE 1

\* Number of code units of buffer b from offset p up to the first NUL.
RECURSIVE utf16_strlen(_, _)
utf16_strlen(b, p) ==
    IF p >= Len(b) \/ b[p + 1] = NUL THEN 0
    ELSE 1 + utf16_strlen(b, p + 1)

(***************************************************************************)
(* IntegratedString                                                        *)
(***************************************************************************)
\* The default constructor: ptr_ = nullptr, size_ = 0.
NullString == [buf |-> 0, ptr |-> 0, size |-> 0]

\* IntegratedString(const char16_t* ptr, size_t size)
IntegratedString(b, p, n) == [buf |-> b, ptr |-> p, size |-> n]

\* explicit IntegratedString(const char16_t* ptr): size_ = utf16_strlen(ptr)
IntegratedStringZ(h, b, p) == [buf |-> b, ptr |-> p, size |-> utf16_strlen(h[b], p)]

\* The code units the view denotes.
Content(h, v) ==
    IF v.size = 0 THEN <<>> ELSE SubSeq(h[v.buf], v.ptr + 1, v.ptr + v.size)

RECURSIVE isProhibitedFrom(_, _)
isProhibitedFrom(sym, i) ==
    IF i >= N_PROHIBITED_ THEN FALSE
    ELSE IF PROHIBITED_[i + 1] = sym THEN TRUE
    ELSE isProhibitedFrom(sym, i + 1)

\* Mutant: the scan stops one entry early and misses the space.
isProhibitedSymbolShort(sym) ==
    \E i \in 1..(N_PROHIBITED_ - 1) : PROHIBITED_[i] = sym

isProhibitedSymbol(sym) == isProhibitedFrom(sym, 0)

\* start + direction * ind in size_t arithmetic
Index(start, direction, ind) == (start + direction * ind) % SizeMod

\* A read outside every buffer yields no code unit of the program.
WildUnit == -1

\* ptr[k] for the view v
UnitAt(h, v, k) ==
    LET a == (v.ptr + k) % SizeMod
    IN  IF v.buf \in 1..Len(h) /\ a < Len(h[v.buf]) THEN h[v.buf][a + 1] ELSE WildUnit

\* The position of the comparator's loop: the two indices and, as history,
\* the number of reads of each operand and whether a read left the view.
CmpStart == [indLHS |-> 0, indRHS |-> 0, readsLHS |-> 0, readsRHS |-> 0, outside |-> FALSE]

\* skipProhibited(ptr, start, &ind, direction) on the left operand
skipProhibitedLHS(h, v, start, direction, st) ==
    LET k == Index(start, direction, st.indLHS)
        hit == isProhibitedSymbol(UnitAt(h, v, k))
        st1 == [st EXCEPT !.readsLHS = @ + 1, !.outside = @ \/ k >= v.size]
    IN  [hit |-> hit, st |-> IF hit THEN [st1 EXCEPT !.indLHS = @ + 1] ELSE st1]

\* Mutant: the ignorable characters of the right operand are not skipped.
skipNothingRHS(h, v, start, direction, st) == [hit |-> FALSE, st |-> st]

skipProhibitedRHS(h, v, start, direction, st) ==
    LET k == Index(start, direction, st.indRHS)
        hit == isProhibitedSymbol(UnitAt(h, v, k))
        st1 == [st EXCEPT !.readsRHS = @ + 1, !.outside = @ \/ k >= v.size]
    IN  [hit |-> hit, st |-> IF hit THEN [st1 EXCEPT !.indRHS = @ + 1] ELSE st1]

\* Mutant: the operands of && are exchanged, so the unit is read before
\* *ind < size is tested.
RECURSIVE advanceReadFirstLHS(_, _, _, _, _)
advanceReadFirstLHS(h, v, start, direction, st) ==
    LET k == Index(start, direction, st.indLHS)
        st1 == [st EXCEPT !.readsLHS = @ + 1, !.outside = @ \/ k >= v.size]
    IN  IF isProhibitedSymbol(UnitAt(h, v, k)) /\ st.indLHS < v.size
        THEN advanceReadFirstLHS(h, v, start, direction, [st1 EXCEPT !.indLHS = @ + 1])
        ELSE st1

RECURSIVE advanceUntilNotProhibitedLHS(_, _, _, _, _)
advanceUntilNotProhibitedLHS(h, v, start, direction, st) ==
    IF st.indLHS < v.size
    THEN LET k == Index(start, direction, st.indLHS)
             st1 == [st EXCEPT !.readsLHS = @ + 1, !.outside = @ \/ k >= v.size]
         IN  IF isProhibitedSymbol(UnitAt(h, v, k))
             THEN advanceUntilNotProhibitedLHS(h, v, start, direction,
                                               [st1 EXCEPT !.indLHS = @ + 1])
             ELSE st1
    ELSE st

RECURSIVE advanceUntilNotProhibitedRHS(_, _, _, _, _)
advanceUntilNotProhibitedRHS(h, v, start, direction, st) ==
    IF st.indRHS < v.size
    THEN LET k == Index(start, direction, st.indRHS)
             st1 == [st EXCEPT !.readsRHS = @ + 1, !.outside = @ \/ k >= v.size]
         IN  IF isProhibitedSymbol(UnitAt(h, v, k))
             THEN advanceUntilNotProhibitedRHS(h, v, start, direction,
                                               [st1 EXCEPT !.indRHS = @ + 1])
             ELSE st1
    ELSE st

\* Mutant: the operands of the final test are exchanged.
CompareTailSwapped(h, this, that, startLHS, startRHS, direction, st) ==
    LET s1 == advanceUntilNotProhibitedLHS(h, this, startLHS, direction, st)
        s2 == advanceUntilNotProhibitedRHS(h, that, startRHS, direction, s1)
    IN  [less |-> (s2.indRHS >= that.size /\ s2.indLHS < this.size),
         readsLHS |-> s2.readsLHS, readsRHS |-> s2.readsRHS, outside |-> s2.outside]

\* Mutant: the final test looks at the left operand only.
CompareTailLhsOnly(h, this, that, startLHS, startRHS, direction, st) ==
    LET s1 == advanceUntilNotProhibitedLHS(h, this, startLHS, direction, st)
        s2 == advanceUntilNotProhibitedRHS(h, that, startRHS, direction, s1)
    IN  [less |-> (s2.indLHS >= this.size),
         readsLHS |-> s2.readsLHS, readsRHS |-> s2.readsRHS, outside |-> s2.outside]

\* The value returned after the loop of directionalCompare.
CompareTail(h, this, that, startLHS, startRHS, direction, st) ==
    LET s1 == advanceUntilNotProhibitedLHS(h, this, startLHS, direction, st)
        s2 == advanceUntilNotProhibitedRHS(h, that, startRHS, direction, s1)
    IN  [less |-> (s2.indLHS >= this.size /\ s2.indRHS < that.size),
         readsLHS |-> s2.readsLHS, readsRHS |-> s2.readsRHS, outside |-> s2.outside]

RECURSIVE CompareLoop(_, _, _, _, _, _, _)
CompareLoop(h, this, that, startLHS, startRHS, direction, st) ==
    IF st.indLHS < this.size /\ st.indRHS < that.size
    THEN LET l == skipProhibitedLHS(h, this, startLHS, direction, st)
         IN  IF l.hit
             THEN CompareLoop(h, this, that, startLHS, startRHS, direction, l.st)
             ELSE LET r == skipProhibitedRHS(h, that, startRHS, direction, l.st)
                  IN  IF r.hit
                      THEN CompareLoop(h, this, that, startLHS, startRHS, direction, r.st)
                      ELSE LET kl == Index(startLHS, direction, r.st.indLHS)
                               kr == Index(startRHS, direction, r.st.indRHS)
                               comp_res == utf16_comp_le(UnitAt(h, this, kl),
                                                         UnitAt(h, that, kr))
                               st2 == [r.st EXCEPT !.indLHS = @ + 1, !.indRHS = @ + 1,
                                                   !.readsLHS = @ + 1, !.readsRHS = @ + 1,
                                                   !.outside = @ \/ kl >= this.size
                                                                 \/ kr >= that.size]
                           IN  IF comp_res < 0
                               THEN [less |-> TRUE, readsLHS |-> st2.readsLHS,
                                     readsRHS |-> st2.readsRHS, outside |-> st2.outside]
                               ELSE IF comp_res > 0
                               THEN [less |-> FALSE, readsLHS |-> st2.readsLHS,
                                     readsRHS |-> st2.readsRHS, outside |-> st2.outside]
                               ELSE CompareLoop(h, this, that, startLHS, startRHS,
                                                direction, st2)
    ELSE CompareTail(h, this, that, startLHS, startRHS, direction, st)

directionalCompare(h, this, that, startLHS, startRHS, direction) ==
    CompareLoop(h, this, that, startLHS, startRHS, direction, CmpStart)

\* bool operator <(const IntegratedString& that) const
OperatorLess(h, this, that) == directionalCompare(h, this, that, 0, 0, 1)

\* Mutant: the backward scan starts at size instead of size - 1.
compareReversedFromSize(h, this, that) ==
    directionalCompare(h, this, that, this.size % SizeMod, that.size % SizeMod, -1)

\* bool compareReversed(const IntegratedString& that) const
compareReversed(h, this, that) ==
    directionalCompare(h, this, that, (this.size - 1) % SizeMod,
                       (that.size - 1) % SizeMod, -1)

reverseStringComparator(h, lhs, rhs) == compareReversed(h, lhs, rhs)

(***************************************************************************)
(* Files and uninitialised memory                                          *)
(***************************************************************************)
\* A code unit of an array that new[] returned and nothing has written yet.
\* Every read of it is a nondeterministic choice of the reading operation.
Uninit == -2

\* Longest file body (the code units after the leading marker).
MaxFileLen == 3

\* Most printToFile calls.
MaxPrints == 1

\* Most newline units utf16_count can meet in uninitialised memory or past
\* the end of the buffer before it meets a NUL.
MaxStray == 1

\* Code units of file bodies: newline, 'a' and '.'.
FileAlphabet == {NEWLINE, 97, 46}

\* beta, alpha, gamma and .alpha, beta!, -gamma, one per line, after a marker
ExampleFiles ==
    { <<65279, 98, 101, 116, 97, 10, 97, 108, 112, 104, 97, 10,
        103, 97, 109, 109, 97, 10>>,
      <<65279, 46, 97, 108, 112, 104, 97, 10, 98, 101, 116, 97, 33, 10,
        45, 103, 97, 109, 109, 97, 10>> }

\* The empty file and a marker unit followed by a short body.
ShortFiles ==
    {<<>>} \cup {<<65279>> \o b : b \in SeqsUpTo(FileAlphabet, MaxFileLen)}

Files == ShortFiles \cup ExampleFiles

\* The files second Text objects are constructed from: one line (a), two
\* lines (. and a) and the three lines beta, alpha, gamma.
OtherFiles ==
    { <<65279, 97>>,
      <<65279, 46, 10, 97>>,
      <<65279, 98, 101, 116, 97, 10, 97, 108, 112, 104, 97, 10,
        103, 97, 109, 109, 97, 10>> }

\* new char16_t[n]
Allocate(n) == [i \in 1..n |-> Uninit]

\* fread(buffer_, sizeof(char16_t), nSymbols_, sourceFile) that delivered got units
Fread(buf, f, got) == [i \in 1..Len(buf) |-> IF i <= got THEN f[i] ELSE buf[i]]

\* utf16_file_len: the file's size in code units
utf16_file_len(f) == Len(f)

RECURSIVE SubsetsUpTo(_, _)
SubsetsUpTo(U, k) ==
    IF k = 0 THEN {{}}
    ELSE LET S == SubsetsUpTo(U, k - 1) IN S \cup {t \cup {x} : t \in S, x \in U}

\* What the uninitialised units of an array of n + 2 units hold, U being the
\* 0-based positions below n that nothing has written: nl are the positions
\* of U that hold a newline, nul the first position that holds NUL (if any; n
\* stands for the two units at the end), and extra is the number of newlines
\* a scan meets from position n on, past the end of the array, before a NUL.
Garbage(a, b, e) == [nl |-> a, nul |-> b, extra |-> e]

NewlineChoices(U) == SubsetsUpTo(U, MaxStray)

NulChoices(U, a, n) == {{}} \cup {{x} : x \in (U \ a) \cup {n}}

NoGarbage == [nl |-> {}, nul |-> {}, extra |-> 0]

\* str[i] as a read finds it
ValueAt(str, g, i) ==
    IF str[i + 1] # Uninit THEN str[i + 1]
    ELSE IF i \in g.nl THEN NEWLINE
    ELSE IF i \in g.nul THEN NUL
    ELSE Uninit

\* utf16_count(str, symbol) from index i with answer counted so far: the
\* count up to the first NUL; past is TRUE when the scan ran past the end of
\* the array.
RECURSIVE utf16_countFrom(_, _, _, _, _)
utf16_countFrom(str, g, symbol, i, answer) ==
    IF i >= Len(str) THEN [count |-> answer + g.extra, past |-> TRUE]
    ELSE IF ValueAt(str, g, i) = NUL THEN [count |-> answer, past |-> FALSE]
    ELSE utf16_countFrom(str, g, symbol, i + 1,
                         answer + (IF ValueAt(str, g, i) = symbol THEN 1 ELSE 0))

utf16_count(str, g, symbol) == utf16_countFrom(str, g, symbol, 0, 0)

(***************************************************************************)
(* Text: loading                                                           *)
(***************************************************************************)
\* The loop of separateBufferIntoLines from index i.  b is the buffer id, g
\* what the uninitialised units hold, st the locals, the strings_ array (of
\* alloc elements) and the buffer.  A store to strings_ at or past alloc
\* overflows the array.
StoreLine(st, alloc, b) ==
    IF st.currLine < alloc
    THEN [st EXCEPT !.strings[st.currLine + 1] =
                        IntegratedString(b, st.currBeginning, st.currLength)]
    ELSE [st EXCEPT !.overflow = TRUE]

RECURSIVE separateLoop(_, _, _, _, _, _)
separateLoop(b, nSym, alloc, g, i, st) ==
    IF i < nSym
    THEN IF ValueAt(st.buffer, g, i) # NEWLINE
             THEN separateLoop(b, nSym, alloc, g, i + 1,
                               [st EXCEPT !.currLength = @ + 1])
             ELSE LET s1 == StoreLine(st, alloc, b)
                  IN  separateLoop(b, nSym, alloc, g, i + 1,
                                   [s1 EXCEPT !.currBeginning = i + 1,
                                              !.currLength = 0,
                                              !.currLine = @ + 1,
                                              !.buffer[i + 1] = NUL])
    ELSE StoreLine(st, alloc, b)

\* separateBufferIntoLines with nLines_ = alloc already counted
separateBufferIntoLines(b, buffer, nSym, alloc, g) ==
    separateLoop(b, nSym, alloc, g, 1,
                 [strings |-> [k \in 1..alloc |-> NullString],
                  buffer |-> buffer, currLength |-> 0, currLine |-> 0,
                  currBeginning |-> 1, overflow |-> FALSE])

\* shrinkEmptyLines: strings_[nLines_ - 1] is read before nLines_ > 0 is
\* tested, so with nLines_ = 0 the element before the array is read; whatever
\* it holds, the loop ends there.
RECURSIVE shrinkEmptyLines(_, _)
shrinkEmptyLines(strings, n) ==
    IF n = 0 THEN [nLines |-> 0, before |-> TRUE]
    ELSE IF strings[n].size = 0 THEN shrinkEmptyLines(strings, n - 1)
    ELSE [nLines |-> n, before |-> FALSE]

\* The first n elements of an array.
FirstN(array, n) == [i \in 1..n |-> array[i]]

\* setOriginal: original_ = a copy of strings_[0 .. nLines_)
setOriginal(strings, n) == FirstN(strings, n)

\* readFile: TRUE when the file opened and fread delivered nSymbols_ units
readFile(nSym, opened, got) == opened /\ got = nSym

\* loadFromFile for the file f into buffer id b in a build with NDEBUG (nd)
\* or without.  opened and got are the outcome of fopen and fread, g what
\* the uninitialised units hold.
loadFromFile(b, f, nd, opened, got, g) ==
    LET nSym == utf16_file_len(f)
        buf0 == Allocate(nSym + 2)
        buf1 == IF opened THEN Fread(buf0, f, got) ELSE buf0
        ok == readFile(nSym, opened, got)
        cnt == utf16_count(buf1, g, NEWLINE)
        alloc == cnt.count + 1
        sep == separateBufferIntoLines(b, buf1, nSym, alloc, g)
        sh == shrinkEmptyLines(sep.strings, alloc)
    IN  IF ~ok /\ ~nd
        THEN [asserted |-> TRUE, readOk |-> ok, separated |-> FALSE,
              buffer |-> buf1, nSymbols |-> nSym,
              nLines |-> 0, strings |-> <<>>, original |-> <<>>, faults |-> {}]
        ELSE [asserted |-> FALSE, readOk |-> ok, separated |-> TRUE,
              buffer |-> sep.buffer, nSymbols |-> nSym,
              nLines |-> sh.nLines,
              strings |-> FirstN(sep.strings, sh.nLines),
              original |-> setOriginal(sep.strings, sh.nLines),
              faults |-> (IF cnt.past THEN {"utf16_count read past buffer_"}
                          ELSE {})
                    \cup (IF sep.overflow THEN {"strings_ overflow"} ELSE {})
                    \cup (IF sh.before THEN {"strings_[-1] read"} ELSE {})]

\* memcpy(buffer_, buf, n * sizeof(char16_t)): the units read past the end of
\* buf are whatever lies there.
Memcpy(dst, src, n) ==
    [i \in 1..Len(dst) |-> IF i > n THEN dst[i]
                           ELSE IF i <= Len(src) THEN src[i]
                           ELSE Uninit]

\* loadFromBuffer(buf, size) into buffer id b.  nSymbols_ is first set from
\* size (or utf16_strlen(buf)), then "new char16_t[nSymbols_ = 2]" assigns 2
\* to it and allocates two units; two units are copied, the buffer is
\* separated into lines, and the lines become the original (no trim).
loadFromBuffer(b, buf, size, g) ==
    LET requested == IF size < 0 THEN utf16_strlen(buf, 0) ELSE size
        nSym == 2
        buf0 == Allocate(nSym)
        buf1 == Memcpy(buf0, buf, nSym)
        cnt == utf16_count(buf1, g, NEWLINE)
        alloc == cnt.count + 1
        sep == separateBufferIntoLines(b, buf1, nSym, alloc, g)
    IN  [requested |-> requested,
         buffer |-> sep.buffer, nSymbols |-> nSym,
         nLines |-> alloc,
         strings |-> FirstN(sep.strings, alloc),
         original |-> setOriginal(sep.strings, alloc),
         faults |-> (IF cnt.past THEN {"utf16_count read past buffer_"} ELSE {})
                    \cup (IF sep.overflow THEN {"strings_ overflow"} ELSE {})
                    \cup (IF Len(buf) < nSym THEN {"memcpy read past buf"} ELSE {})]

\* The 0-based positions below nSymbols_ that the read leaves uninitialised.
UninitPositions(f, opened, got) ==
    {i \in 0..(Len(f) - 1) : ~opened \/ i >= got}

\* Text::isOk(): buffer_ && strings_.  buffer_ is set by loadFromFile and
\* strings_ by separateBufferIntoLines.
isOk == heap # <<>> /\ status \in {"Loaded", "Undefined"}

(***************************************************************************)
(* Text: the order of lines                                                *)
(***************************************************************************)
\* The comparator handed to sort: std::less (operator <) or
\* reverseStringComparator.
Comp(h, rev, x, y) ==
    IF rev THEN reverseStringComparator(h, x, y).less ELSE OperatorLess(h, x, y).less

\* std::sort on a short range is an insertion sort: an element less than the
\* first goes to the front, any other moves left past the elements it is
\* less than.
RECURSIVE linearInsert(_, _, _, _, _)
linearInsert(h, rev, pre, val, j) ==
    IF j >= 1 /\ Comp(h, rev, val, pre[j])
    THEN linearInsert(h, rev, pre, val, j - 1)
    ELSE SubSeq(pre, 1, j) \o <<val>> \o SubSeq(pre, j + 1, Len(pre))

insertOne(h, rev, pre, val) ==
    IF pre = <<>> THEN <<val>>
    ELSE IF Comp(h, rev, val, pre[1]) THEN <<val>> \o pre
    ELSE linearInsert(h, rev, pre, val, Len(pre))

RECURSIVE insertionSort(_, _, _, _)
insertionSort(h, rev, pre, rest) ==
    IF rest = <<>> THEN pre
    ELSE insertionSort(h, rev, insertOne(h, rev, pre, Head(rest)), Tail(rest))

\* Mutant: the range handed to std::sort is one element short.
StdSortShort(h, rev, strings) ==
    LET n == Len(strings)
    IN  IF n = 0 THEN {strings}
        ELSE {Append(insertionSort(h, rev, <<>>, SubSeq(strings, 1, n - 1)), strings[n])}

\* std::sort(strings_, strings_ + nLines_, comp).  The order in which
\* std::sort leaves equivalent elements is unspecified: the results are the
\* insertion sorts of every arrangement of the range.
StdSort(h, rev, strings) ==
    LET n == Len(strings)
    IN  {insertionSort(h, rev, <<>>, [i \in 1..n |-> strings[p[i]]]) :
            p \in Permutations(1..n)}

\* Mutant: the snapshot misses the last line.
LineOrderShort(nLines, strings) == FirstN(strings, nLines - 1)

\* LineOrder(nLines, strings_): lines_(strings_, strings_ + nLines)
LineOrder(nLines, strings) == FirstN(strings, nLines)

\* memcpy(dst, src, n * sizeof(IntegratedString)) with src holding n elements
CopyLines(dst, src, n) ==
    [i \in 1..Len(dst) |-> IF i <= n THEN src[i] ELSE dst[i]]

\* Mutant: the copy is one element short.
setOrderShort(strings, lines, n) == CopyLines(strings, lines, n - 1)

\* setOrder with order.lines_.size() == nLines_
setOrder(strings, lines, n) == CopyLines(strings, lines, n)

\* Mutant: the copy is one element short.
recoverOriginalShort(strings, original, n) == CopyLines(strings, original, n - 1)

\* recoverOriginal
recoverOriginal(strings, original, n) == CopyLines(strings, original, n)

Init ==
    /\ heap = <<>>
    /\ ndebug \in BOOLEAN
    /\ status = "Unloaded"
    /\ nSymbols_ = 0
    /\ nLines_ = 0
    /\ strings_ = <<>>
    /\ original_ = <<>>
    /\ saved = [kind |-> "none"]
    /\ snapAt = <<>>
    /\ lastOp = [op |-> "none", changed |-> FALSE]
    /\ output = <<>>
    /\ atLoad = <<>>
    /\ source = <<>>
    /\ events = {}
    /\ cmp = [pc |-> "off"]

\* Text(filename) / loadFromFile(filename) with the given outcome of the read
Load(f, opened, got, g) ==
    /\ status = "Unloaded"
    /\ LET r == loadFromFile(1, f, ndebug, opened, got, g)
       IN  /\ heap' = <<r.buffer>>
           /\ nSymbols_' = r.nSymbols
           /\ nLines_' = r.nLines
           /\ strings_' = r.strings
           /\ original_' = r.original
           /\ atLoad' = r.strings
           /\ source' = f
           /\ status' = IF r.asserted THEN "Aborted"
                        ELSE IF "strings_ overflow" \in r.faults THEN "Undefined"
                        ELSE "Loaded"
           /\ lastOp' = [op |-> IF r.readOk THEN "load" ELSE "failedLoad",
                         changed |-> FALSE, faults |-> r.faults]
    /\ UNCHANGED <<ndebug, saved, snapAt, output, events, cmp>>

\* A load whose read delivers the whole file.
LoadWhole ==
    \E f \in Files :
        \E b \in NulChoices({}, {}, Len(f)), e \in 0..MaxStray :
            Load(f, TRUE, Len(f), Garbage({}, b, e))

\* text.sort()
Sort ==
    /\ status = "Loaded"
    /\ strings_' \in StdSort(heap, FALSE, strings_)
    /\ lastOp' = [op |-> "sort", changed |-> strings_' # strings_]
    /\ UNCHANGED <<heap, ndebug, status, nSymbols_, nLines_, original_, saved,
                   snapAt, output, atLoad, source, events, cmp>>

\* text.sort(reverseStringComparator)
SortReversed ==
    /\ status = "Loaded"
    /\ strings_' \in StdSort(heap, TRUE, strings_)
    /\ lastOp' = [op |-> "sortReversed", changed |-> strings_' # strings_]
    /\ UNCHANGED <<heap, ndebug, status, nSymbols_, nLines_, original_, saved,
                   snapAt, output, atLoad, source, events, cmp>>

\* order = text.getOrder()
GetOrder ==
    /\ status = "Loaded"
    /\ saved' = [kind |-> "own", lines |-> LineOrder(nLines_, strings_)]
    /\ snapAt' = strings_
    /\ lastOp' = [op |-> "getOrder", changed |-> FALSE]
    /\ UNCHANGED <<heap, ndebug, status, nSymbols_, nLines_, strings_, original_,
                   output, atLoad, source, events, cmp>>

\* The second Text objects: other, constructed from a file whose read
\* delivers the whole file; its buffer is heap[2].
OtherTexts ==
    {loadFromFile(2, f, FALSE, TRUE, Len(f), NoGarbage) : f \in OtherFiles}

\* Text other(file); order = other.getOrder(): a second Text object is
\* constructed and its order taken.
GetOrderOfOther ==
    /\ status = "Loaded"
    /\ Len(heap) = 1
    /\ \E r \in OtherTexts :
          /\ heap' = <<heap[1], r.buffer>>
          /\ saved' = [kind |-> "other", lines |-> LineOrder(r.nLines, r.strings)]
          /\ snapAt' = r.strings
    /\ lastOp' = [op |-> "getOrderOfOther", changed |-> FALSE]
    /\ UNCHANGED <<ndebug, status, nSymbols_, nLines_, strings_, original_,
                   output, atLoad, source, events, cmp>>

\* What memcpy reads past the end of order.lines_: garbage.
GarbageStrings == {NullString} \cup {strings_[i] : i \in 1..Len(strings_)}

\* text.setOrder(order)
SetOrder ==
    /\ status = "Loaded"
    /\ saved.kind # "none"
    /\ LET size == Len(saved.lines)
           from == IF saved.kind = "other" THEN {"setOrder with another Text's order"}
                   ELSE {}
       IN  IF size = nLines_
           THEN /\ strings_' = setOrder(strings_, saved.lines, nLines_)
                /\ events' = events \cup from
                /\ UNCHANGED status
           ELSE IF ~ndebug
           THEN \* assert(order.lines_.size() == nLines_) ends the process
                /\ status' = "Aborted"
                /\ events' = events \cup {"setOrder size mismatch"}
                /\ UNCHANGED strings_
           ELSE IF size > nLines_
           THEN /\ strings_' = setOrder(strings_, saved.lines, nLines_)
                /\ events' = events \cup from \cup {"setOrder size mismatch"}
                /\ UNCHANGED status
           ELSE \E g \in GarbageStrings :
                /\ strings_' = setOrder(strings_,
                                   saved.lines \o [i \in 1..(nLines_ - size) |-> g],
                                   nLines_)
                /\ status' = "Undefined"
                /\ events' = events \cup from \cup {"setOrder size mismatch",
                                                    "memcpy read past order.lines_"}
    /\ lastOp' = [op |-> "setOrder", changed |-> strings_' # strings_]
    /\ UNCHANGED <<heap, ndebug, nSymbols_, nLines_, original_, saved, snapAt,
                   output, atLoad, source, cmp>>

\* text.recoverOriginal()
RecoverOriginal ==
    /\ status = "Loaded"
    /\ strings_' = recoverOriginal(strings_, original_, nLines_)
    /\ lastOp' = [op |-> "recoverOriginal", changed |-> strings_' # strings_]
    /\ UNCHANGED <<heap, ndebug, status, nSymbols_, nLines_, original_, saved,
                   snapAt, output, atLoad, source, events, cmp>>

\* The code units one printToFile call writes.
RECURSIVE printLines(_, _, _, _)
printLines(h, strings, n, i) ==
    IF i >= n THEN <<>>
    ELSE Content(h, strings[i + 1]) \o <<UTF16_NEWLINE>>
         \o printLines(h, strings, n, i + 1)

\* Mutant: the leading marker is not written.
printToFileNoMarker(h, strings, n) == printLines(h, strings, n, 0)

\* printToFile: buffer_[0], then each line followed by UTF16_NEWLINE
printToFile(h, strings, n) == <<h[1][1]>> \o printLines(h, strings, n, 0)

\* text.printToFile(output); output holds what each call wrote.
PrintToFile ==
    /\ status = "Loaded"
    /\ Len(output) < MaxPrints
    /\ output' = Append(output, printToFile(heap, strings_, nLines_))
    /\ lastOp' = [op |-> "printToFile", changed |-> FALSE, after |-> lastOp.op]
    /\ UNCHANGED <<heap, ndebug, status, nSymbols_, nLines_, strings_, original_,
                   saved, snapAt, atLoad, source, events, cmp>>

\* A load of a short file with any outcome of fopen and fread.
LoadAny ==
    \E f \in ShortFiles, opened \in BOOLEAN, got \in 0..MaxFileLen + 1 :
        /\ got <= Len(f)
        /\ ~opened => got = 0
        /\ \E a \in NewlineChoices(UninitPositions(f, opened, got)) :
              \E b \in NulChoices(UninitPositions(f, opened, got), a, Len(f)),
                 e \in 0..MaxStray :
                  Load(f, opened, got, Garbage(a, b, e))

LoadNext == LoadAny \/ PrintToFile

\* Loading with every outcome of the read, then printing.
LoadSpec == Init /\ [][LoadNext]_vars

\* The buffers handed to loadFromBuffer: NUL-terminated copies of the short
\* files.
Buffers == {Append(f, NUL) : f \in ShortFiles}

\* Text text; text.loadFromBuffer(buf, size)
LoadFromBuffer(buf, size, g) ==
    /\ status = "Unloaded"
    /\ LET r == loadFromBuffer(1, buf, size, g)
       IN  /\ heap' = <<r.buffer>>
           /\ nSymbols_' = r.nSymbols
           /\ nLines_' = r.nLines
           /\ strings_' = r.strings
           /\ original_' = r.original
           /\ atLoad' = r.strings
           /\ source' = buf
           /\ status' = IF "strings_ overflow" \in r.faults THEN "Undefined"
                        ELSE "Loaded"
           /\ lastOp' = [op |-> "loadFromBuffer", changed |-> FALSE,
                         faults |-> r.faults, size |-> size,
                         requested |-> r.requested]
    /\ UNCHANGED <<ndebug, saved, snapAt, output, events, cmp>>

\* loadFromBuffer with size -1 or any size up to the buffer's length
LoadFromBufferAny ==
    \E buf \in Buffers, size \in -1..MaxFileLen + 2 :
        /\ size <= Len(buf)
        /\ LET U == {i \in 0..1 : i >= Len(buf)}
           IN  \E a \in NewlineChoices(U) :
                 \E b \in NulChoices(U, a, 2), e \in 0..MaxStray :
                     LoadFromBuffer(buf, size, Garbage(a, b, e))

BufferNext == LoadFromBufferAny \/ PrintToFile

\* Loading from a buffer, then printing.
BufferSpec == Init /\ [][BufferNext]_vars

\* As the test RewriteFile: load, getOrder, setOrder, printToFile.
RenderNext == LoadWhole \/ GetOrder \/ SetOrder \/ PrintToFile

RenderSpec == Init /\ [][RenderNext]_vars

Next ==
    \/ LoadWhole
    \/ Sort
    \/ SortReversed
    \/ GetOrder
    \/ GetOrderOfOther
    \/ SetOrder
    \/ RecoverOriginal

Spec == Init /\ [][Next]_vars

(***************************************************************************)
(* The comparator harness (as in src/test.cpp): two strings are built from *)
(* NUL-terminated literals, then the comparators are called on them.       *)
(***************************************************************************)
Literal(s) == Append(s, NUL)

NoTable ==
    /\ ndebug = FALSE
    /\ status = "Unloaded"
    /\ nSymbols_ = 0
    /\ nLines_ = 0
    /\ strings_ = <<>>
    /\ original_ = <<>>
    /\ saved = [kind |-> "none"]
    /\ snapAt = <<>>
    /\ lastOp = [op |-> "none", changed |-> FALSE]
    /\ output = <<>>
    /\ atLoad = <<>>
    /\ source = <<>>
    /\ events = {}

CmpInit ==
    /\ NoTable
    /\ \E s \in CmpStrings, t \in CmpStrings :
          /\ heap = <<Literal(s), Literal(t)>>
          /\ cmp = [pc |-> "built",
                    a |-> IntegratedStringZ(heap, 1, 0),
                    b |-> IntegratedStringZ(heap, 2, 0),
                    fwd |-> <<>>, bwd |-> <<>>]

\* a < b and b < a
CallOperatorLess ==
    /\ cmp.pc = "built"
    /\ cmp' = [cmp EXCEPT !.pc = "forward",
                          !.fwd = <<OperatorLess(heap, cmp.a, cmp.b),
                                    OperatorLess(heap, cmp.b, cmp.a)>>]
    /\ UNCHANGED <<heap, tableVars>>

\* reverseStringComparator(a, b) and reverseStringComparator(b, a)
CallReverseStringComparator ==
    /\ cmp.pc = "forward"
    /\ cmp' = [cmp EXCEPT !.pc = "backward",
                          !.bwd = <<reverseStringComparator(heap, cmp.a, cmp.b),
                                    reverseStringComparator(heap, cmp.b, cmp.a)>>]
    /\ UNCHANGED <<heap, tableVars>>

CmpNext == CallOperatorLess \/ CallReverseStringComparator

CompareSpec == CmpInit /\ [][CmpNext]_vars

(***************************************************************************)
(* utf16_comp_le on its own: two code units, then the call.                *)
(***************************************************************************)
\* Code units handed to utf16_comp_le: both bytes small, equal low or high
\* bytes, and the extremes.
CodeUnits == {0, 1, 10, 97, 255, 256, 257, 353, 1041, 1042, 4369, 65279, 65535}

UnitInit ==
    /\ NoTable
    /\ heap = <<>>
    /\ \E c1 \in CodeUnits, c2 \in CodeUnits :
          cmp = [pc |-> "units", c1 |-> c1, c2 |-> c2]

\* utf16_comp_le(c1, c2)
CallUtf16CompLe ==
    /\ cmp.pc = "units"
    /\ cmp' = [pc |-> "compared", c1 |-> cmp.c1, c2 |-> cmp.c2,
                res |-> utf16_comp_le(cmp.c1, cmp.c2)]
    /\ UNCHANGED <<heap, tableVars>>

UnitNext == CallUtf16CompLe

UnitSpec == UnitInit /\ [][UnitNext]_vars

(***************************************************************************)
(* Properties of the comparator                                            *)
(***************************************************************************)
\* The ignorable characters as the specification lists them:
\* . , ! : ; " ? - ( ) and space.
Ignorable == {46, 44, 33, 58, 59, 34, 63, 45, 40, 41, 32}

RECURSIVE Significant(_)
Significant(s) ==
    IF s = <<>> THEN <<>>
    ELSE IF Head(s) \in Ignorable THEN Significant(Tail(s))
    ELSE <<Head(s)>> \o Significant(Tail(s))

RECURSIVE Reverse(_)
Reverse(s) == IF s = <<>> THEN <<>> ELSE Append(Reverse(Tail(s)), Head(s))

CmpA == Content(heap, cmp.a)
CmpB == Content(heap, cmp.b)
ForwardDone == cmp.pc \in {"forward", "backward"}
BackwardDone == cmp.pc = "backward"

Count(P1, P2, P3) ==
    (IF P1 THEN 1 ELSE 0) + (IF P2 THEN 1 ELSE 0) + (IF P3 THEN 1 ELSE 0)

\* C1: for non-empty lines a and b exactly one of a < b, b < a, or equality
\* of the contents with the ignorable characters removed holds; a < b and
\* b < a are never both true.
C1_Trichotomy ==
    (ForwardDone /\ cmp.a.size > 0 /\ cmp.b.size > 0) =>
        /\ Count(cmp.fwd[1].less, cmp.fwd[2].less,
                 Significant(CmpA) = Significant(CmpB)) = 1
        /\ ~(cmp.fwd[1].less /\ cmp.fwd[2].less)

\* C1 witness: two different non-empty lines with equal significant content
\* have been compared, and so have two lines one of which is less.
C1_Witness ==
    /\ ForwardDone
    /\ cmp.a.size > 0 /\ cmp.b.size > 0
    /\ CmpA # CmpB
    /\ Significant(CmpA) = Significant(CmpB)
    /\ Significant(CmpA) # <<>>

\* C2: backwardLess(a, b) is forwardLess on the character-reversed contents,
\* zero-length lines included.
C2_BackwardIsForwardOfReversed ==
    BackwardDone =>
        LET hr == <<Literal(Reverse(CmpA)), Literal(Reverse(CmpB))>>
            ra == IntegratedStringZ(hr, 1, 0)
            rb == IntegratedStringZ(hr, 2, 0)
        IN  /\ cmp.bwd[1].less = OperatorLess(hr, ra, rb).less
            /\ cmp.bwd[2].less = OperatorLess(hr, rb, ra).less

\* C2 witness: the backward and the forward comparison of one pair disagree,
\* so the reversal matters.
C2_Witness ==
    /\ BackwardDone
    /\ cmp.bwd[1].less
    /\ ~cmp.fwd[1].less
    /\ cmp.fwd[2].less

AllIgnorable(s) == Significant(s) = <<>>

\* C9: a line of ignorable characters only (length >= 1) is less than every
\* line with a significant character, and not the other way round.
C9_IgnorableOnlySortsFirst ==
    (ForwardDone /\ cmp.a.size >= 1 /\ AllIgnorable(CmpA) /\ ~AllIgnorable(CmpB)) =>
        (cmp.fwd[1].less /\ ~cmp.fwd[2].less)

\* C9 witness: an ignorable-only line was compared with a line that starts
\* with an ignorable character and has a significant one.
C9_Witness ==
    /\ ForwardDone
    /\ cmp.a.size >= 2 /\ AllIgnorable(CmpA)
    /\ ~AllIgnorable(CmpB) /\ cmp.b.size >= 2 /\ CmpB[1] \in Ignorable

\* C10: of two lines without a significant character neither is less than
\* the other, forward or backward.
C10_NoSignificantNeitherLess ==
    (AllIgnorable(CmpA) /\ AllIgnorable(CmpB)) =>
        /\ ForwardDone => (~cmp.fwd[1].less /\ ~cmp.fwd[2].less)
        /\ BackwardDone => (~cmp.bwd[1].less /\ ~cmp.bwd[2].less)

\* C10 witness: a line of ignorable characters and a zero-length line have
\* been compared in both directions.
C10_Witness ==
    /\ BackwardDone
    /\ cmp.a.size >= 2 /\ AllIgnorable(CmpA)
    /\ cmp.b.size = 0

\* C11 as claimed: a zero-length line is never less than another line,
\* forward or backward, and the comparison reads no character of it and no
\* unit outside a view.
C11_ZeroLengthNeverLess ==
    cmp.a.size = 0 =>
        /\ ForwardDone => (~cmp.fwd[1].less /\ cmp.fwd[1].readsLHS = 0
                                             /\ ~cmp.fwd[1].outside)
        /\ BackwardDone => (~cmp.bwd[1].less /\ cmp.bwd[1].readsLHS = 0
                                              /\ ~cmp.bwd[1].outside)

\* C11 amended: a zero-length line e is less than a line b, forward and
\* backward, exactly when b has a significant character; no line is less than
\* e; the comparisons read no character of e and no unit outside a view.
C11_ZeroLengthLessIffSignificant ==
    cmp.a.size = 0 =>
        /\ ForwardDone =>
              /\ cmp.fwd[1].less = ~AllIgnorable(CmpB)
              /\ ~cmp.fwd[2].less
              /\ cmp.fwd[1].readsLHS = 0 /\ cmp.fwd[2].readsRHS = 0
              /\ ~cmp.fwd[1].outside /\ ~cmp.fwd[2].outside
        /\ BackwardDone =>
              /\ cmp.bwd[1].less = ~AllIgnorable(CmpB)
              /\ ~cmp.bwd[2].less
              /\ cmp.bwd[1].readsLHS = 0 /\ cmp.bwd[2].readsRHS = 0
              /\ ~cmp.bwd[1].outside /\ ~cmp.bwd[2].outside

\* C11 witness: a zero-length line was compared in both directions with a
\* line that has ignorable and significant characters, and was less.
C11_Witness ==
    /\ BackwardDone
    /\ cmp.a.size = 0
    /\ cmp.b.size >= 2 /\ ~AllIgnorable(CmpB) /\ Significant(CmpB) # CmpB
    /\ cmp.fwd[1].less /\ cmp.bwd[1].less

\* C15: on a little-endian host utf16_comp_le(c1, c2) is -1 if c1 < c2
\* numerically, 0 if c1 = c2, and 1 otherwise.
C15_NumericOrder ==
    cmp.pc = "compared" =>
        cmp.res = (IF cmp.c1 < cmp.c2 THEN -1 ELSE IF cmp.c1 = cmp.c2 THEN 0 ELSE 1)

\* Strict lexicographic less-than with the elements compared by
\* utf16_comp_le and a proper prefix smaller.
RECURSIVE LexLess(_, _)
LexLess(s, t) ==
    IF t = <<>> THEN FALSE
    ELSE IF s = <<>> THEN TRUE
    ELSE IF utf16_comp_le(Head(s), Head(t)) < 0 THEN TRUE
    ELSE IF utf16_comp_le(Head(s), Head(t)) > 0 THEN FALSE
    ELSE LexLess(Tail(s), Tail(t))

\* x < y for two strings built from literals
Less(x, y) ==
    LET h == <<Literal(x), Literal(y)>>
    IN  OperatorLess(h, IntegratedStringZ(h, 1, 0), IntegratedStringZ(h, 2, 0)).less

\* Third operands for transitivity.
ThirdStrings ==
    { <<>>, <<46>>, <<97>>, <<97, 46, 1041>>, <<1041, 97>>, <<32, 1041, 46>> }

\* C14: a < b is the strict lexicographic less-than of the contents with the
\* ignorable characters deleted, elements compared by utf16_comp_le and a
\* proper prefix smaller; the relation is irreflexive and transitive, and so
\* is incomparability.
C14_ForwardIsLexicographic ==
    ForwardDone =>
        /\ cmp.fwd[1].less = LexLess(Significant(CmpA), Significant(CmpB))
        /\ cmp.fwd[2].less = LexLess(Significant(CmpB), Significant(CmpA))
        /\ CmpA = CmpB => ~cmp.fwd[1].less
        /\ cmp.pc = "forward" => \A c \in ThirdStrings :
              /\ (cmp.fwd[1].less /\ Less(CmpB, c)) => Less(CmpA, c)
              /\ (~cmp.fwd[1].less /\ ~cmp.fwd[2].less
                      /\ ~Less(CmpB, c) /\ ~Less(c, CmpB))
                    => (~Less(CmpA, c) /\ ~Less(c, CmpA))

\* C14 witness: two lines with the same first significant character, an
\* ignorable character inside the left one, were decided by their second
\* significant characters, against the numeric order of the code units.
C14_Witness ==
    /\ ForwardDone
    /\ cmp.fwd[1].less
    /\ Significant(CmpA) # CmpA
    /\ Len(Significant(CmpA)) >= 2 /\ Len(Significant(CmpB)) >= 2
    /\ Significant(CmpA)[1] = Significant(CmpB)[1]
    /\ Significant(CmpA)[2] > Significant(CmpB)[2]

(***************************************************************************)
(* Properties of the line table                                            *)
(***************************************************************************)
Contents(h, strings) == [i \in 1..Len(strings) |-> Content(h, strings[i])]

Occurrences(s, x) == Cardinality({i \in 1..Len(s) : s[i] = x})

\* s and t hold the same elements, each as many times.
IsPermutation(s, t) ==
    /\ Len(s) = Len(t)
    /\ \A i \in 1..Len(s) : Occurrences(s, s[i]) = Occurrences(t, s[i])

Loaded == status = "Loaded"

\* C3: setOrder with a snapshot taken from this table by getOrder makes the
\* current order equal, position by position, to the order at the time of the
\* getOrder, whatever sort and recoverOriginal calls came between; until
\* then the snapshot stays equal to that order.
C3_SnapshotRoundTrip ==
    (Loaded /\ saved.kind = "own") =>
        /\ saved.lines = snapAt
        /\ lastOp.op = "setOrder" => strings_ = snapAt

\* C3 witness: a setOrder with the table's own snapshot has changed the order
\* of at least three lines, so reorderings came between.
C3_Witness ==
    /\ Loaded /\ saved.kind = "own"
    /\ lastOp.op = "setOrder" /\ lastOp.changed
    /\ nLines_ >= 3

\* C4: recoverOriginal makes the current order the order captured at load
\* time, a second recoverOriginal changes nothing, and no operation changes
\* the stored original order.
C4_RecoverOriginal ==
    Loaded =>
        /\ original_ = atLoad
        /\ lastOp.op = "recoverOriginal" =>
              /\ strings_ = atLoad
              /\ recoverOriginal(strings_, original_, nLines_) = strings_

\* C4 witness: a recoverOriginal has changed the order after a snapshot of
\* another order was taken.
C4_Witness ==
    /\ Loaded
    /\ lastOp.op = "recoverOriginal" /\ lastOp.changed
    /\ saved.kind = "own" /\ saved.lines # atLoad

\* C5 as claimed: after sort, setOrder with any snapshot of the table's size
\* and recoverOriginal the current order is a permutation of the original.
C5_PermutationAnySameSized ==
    (Loaded /\ "setOrder size mismatch" \notin events) =>
        (Len(strings_) = nLines_ /\ IsPermutation(strings_, original_))

\* C5 amended: after sort, setOrder with snapshots this table's getOrder
\* returned, and recoverOriginal, the current order has as many lines as the
\* original order and is a permutation of it.
C5_PermutationOwnSnapshots ==
    (Loaded /\ "setOrder size mismatch" \notin events
            /\ "setOrder with another Text's order" \notin events) =>
        (Len(strings_) = nLines_ /\ IsPermutation(strings_, original_))

\* C5 witness: a setOrder with the table's own snapshot has changed the
\* order of a table with two lines or more.
C5_Witness ==
    /\ Loaded /\ events = {}
    /\ lastOp.op = "setOrder" /\ lastOp.changed
    /\ strings_ # original_
    /\ nLines_ >= 2

\* C6: setOrder with a snapshot of another size changes nothing and leaves
\* the table usable.
C6_SizeMismatchRejected ==
    (lastOp.op = "setOrder" /\ Len(saved.lines) # nLines_) =>
        (~lastOp.changed /\ Loaded)

\* C7: after a load whose read failed the table is not loaded, no order is
\* built and isOk() is false.
C7_FailedLoadNotExposed ==
    lastOp.op = "failedLoad" => (~Loaded /\ ~isOk /\ strings_ = <<>>)

\* The code units of a file after its leading marker.
Body(f) == IF f = <<>> THEN <<>> ELSE Tail(f)

\* The logical lines of a file body: everything between separators, between
\* the start and the first separator, and between the last separator and
\* the end.
RECURSIVE SplitLines(_, _)
SplitLines(body, line) ==
    IF body = <<>> THEN <<line>>
    ELSE IF Head(body) = NEWLINE THEN <<line>> \o SplitLines(Tail(body), <<>>)
    ELSE SplitLines(Tail(body), Append(line, Head(body)))

\* The position of the last non-empty line, 0 if every line is empty.
LastNonEmpty(lines) ==
    IF \A i \in 1..Len(lines) : lines[i] = <<>> THEN 0
    ELSE CHOOSE i \in 1..Len(lines) :
            lines[i] # <<>> /\ \A j \in (i + 1)..Len(lines) : lines[j] = <<>>

\* After a load whose read succeeded the lines are the file's lines up to
\* the last non-empty one.
TrimmedToLastNonEmpty ==
    LET lines == SplitLines(Body(source), <<>>)
    IN  /\ nLines_ = LastNonEmpty(lines)
        /\ Contents(heap, strings_) = FirstN(lines, nLines_)

\* C12: after loadFromFile the trailing zero-length lines are removed and
\* nothing else, and the trim loop never reads the line array when the count
\* is 0.
C12_TrimTrailingEmptyLines ==
    (lastOp.op = "load" /\ status \in {"Loaded", "Undefined"}) =>
        /\ status = "Loaded"
        /\ TrimmedToLastNonEmpty
        /\ "strings_[-1] read" \notin lastOp.faults

\* One marker unit, then one or more lines each terminated by a single
\* newline, the last line non-empty, and no NUL unit.
WellFormedInput(f) ==
    /\ Len(f) >= 3
    /\ f[Len(f)] = NEWLINE
    /\ f[Len(f) - 1] # NEWLINE
    /\ \A i \in 1..Len(f) : f[i] # NUL

\* C13: for a well-formed input, after load, getOrder and setOrder with
\* that snapshot, every printToFile call writes exactly the input: the
\* marker once, then each line in the original order followed by one
\* separator.
C13_RenderRoundTrip ==
    (Loaded /\ WellFormedInput(source)) =>
        \A i \in 1..Len(output) : output[i] = source

\* C13 witness: printToFile ran right after a setOrder with the table's own
\* snapshot, for an input of two lines or more, one of them empty.
C13_Witness ==
    /\ Loaded /\ WellFormedInput(source)
    /\ lastOp.op = "printToFile" /\ lastOp.after = "setOrder"
    /\ saved.kind = "own"
    /\ nLines_ >= 2
    /\ \E i \in 1..nLines_ : strings_[i].size = 0

\* The lines joined by single separators.
RECURSIVE JoinLines(_)
JoinLines(lines) ==
    IF lines = <<>> THEN <<>>
    ELSE IF Len(lines) = 1 THEN lines[1]
    ELSE lines[1] \o <<NEWLINE>> \o JoinLines(Tail(lines))

\* C16: loadFromBuffer(buf, size) records size (the length up to the NUL for
\* size -1) as the symbol count, holds that many units of buf, and its
\* lines cover every unit after the first.
C16_LoadFromBufferSize ==
    lastOp.op = "loadFromBuffer" =>
        LET want == IF lastOp.size < 0 THEN utf16_strlen(source, 0) ELSE lastOp.size
        IN  /\ nSymbols_ = want
            /\ Len(heap[1]) >= want
            /\ want >= 1 =>
                  JoinLines(Contents(heap, strings_)) = SubSeq(source, 2, want)

Beta == <<98, 101, 116, 97>>
Alpha == <<97, 108, 112, 104, 97>>
Gamma == <<103, 97, 109, 109, 97>>
DotAlpha == <<46>> \o Alpha
BetaBang == Beta \o <<33>>
DashGamma == <<45>> \o Gamma

\* C8: after sort() no line is forwardLess than a line before it; beta,
\* alpha, gamma become alpha, beta, gamma, and .alpha, beta!, -gamma end in
\* that same relative order.
C8_SortedAfterSort ==
    (Loaded /\ lastOp.op = "sort") =>
        /\ \A i \in 1..Len(strings_), j \in 1..Len(strings_) :
              i < j => ~OperatorLess(heap, strings_[j], strings_[i]).less
        /\ IsPermutation(Contents(heap, strings_), <<Beta, Alpha, Gamma>>)
              => Contents(heap, strings_) = <<Alpha, Beta, Gamma>>
        /\ IsPermutation(Contents(heap, strings_), <<DotAlpha, BetaBang, DashGamma>>)
              => Contents(heap, strings_) = <<DotAlpha, BetaBang, DashGamma>>

\* C8 witness: sort() has changed the loaded order beta, alpha, gamma.
C8_Witness ==
    /\ Loaded /\ lastOp.op = "sort" /\ lastOp.changed
    /\ Contents(heap, atLoad) = <<Beta, Alpha, Gamma>>
    /\ Contents(heap, strings_) = <<Alpha, Beta, Gamma>>

====
